---- MODULE Spec2Model ----
(***************************************************************************)
(* Squarified treemap layout of src/treemap.py.                            *)
(*                                                                         *)
(* A tree is a set of nodes 1..n (node 1 is the root) with the fields of   *)
(* tree.Tree: children (ordered list), key, value, path.  Keys are strings *)
(* in the program; here a key is a positive integer standing for a string *)
(* in alphabetical order, and 0 stands for the empty string "".            *)
(*                                                                         *)
(* Floats are modelled as exact rationals <<num, den>> in lowest terms     *)
(* with den > 0, so every arithmetic statement below is a statement about  *)
(* the layout in exact arithmetic.  A Python exception (ZeroDivisionError, *)
(* AssertionError) is the value Raise / the control state "error".         *)
(***************************************************************************)
EXTENDS Integers, Sequences, FiniteSets

VARIABLES children, key, value, path, bw, bh, pc, stack, recs, args, ret

vars == <<children, key, value, path, bw, bh, pc, stack, recs, args, ret>>

(* ------------------------------ bounds -------------------------------- *)
MaxNodes == 4
MaxVal == 2
MaxDim == 2
MaxKey == 3
MaxCoord == 2

(* ------------------------- exact arithmetic --------------------------- *)
(* With(e, F) is F(e) with e evaluated once, whatever the number of uses    *)
(* of it in F.                                                              *)
With(e, F(_)) == CHOOSE r \in {F(x) : x \in {e}} : TRUE

Abs(n) == IF n < 0 THEN -n ELSE n

RECURSIVE GCD(_, _)
GCD(a, b) == IF b = 0 THEN a ELSE With(a % b, LAMBDA m : GCD(b, m))

Norm(n, d) ==
    With(GCD(Abs(n), Abs(d)), LAMBDA g :
        <<(IF d < 0 THEN -n ELSE n) \div g, Abs(d) \div g>>)

Q(n) == <<n, 1>>
QAdd(a, b) == With(a, LAMBDA x : With(b, LAMBDA y :
                  Norm(x[1] * y[2] + y[1] * x[2], x[2] * y[2])))
QSub(a, b) == With(a, LAMBDA x : With(b, LAMBDA y :
                  Norm(x[1] * y[2] - y[1] * x[2], x[2] * y[2])))
QMul(a, b) == With(a, LAMBDA x : With(b, LAMBDA y :
                  Norm(x[1] * y[1], x[2] * y[2])))
QDiv(a, b) == With(a, LAMBDA x : With(b, LAMBDA y :
                  Norm(x[1] * y[2], x[2] * y[1])))
QLt(a, b) == \E x \in {a}, y \in {b} : x[1] * y[2] < y[1] * x[2]
QLe(a, b) == \E x \in {a}, y \in {b} : x[1] * y[2] <= y[1] * x[2]
QIsZero(a) == a[1] = 0
QMax(a, b) == With(a, LAMBDA x : With(b, LAMBDA y : IF QLt(x, y) THEN y ELSE x))
QMin(a, b) == With(a, LAMBDA x : With(b, LAMBDA y : IF QLt(y, x) THEN y ELSE x))

RECURSIVE QMaxSeq(_)
QMaxSeq(s) == IF Len(s) = 1 THEN s[1] ELSE QMax(s[1], QMaxSeq(Tail(s)))

(* The value a raising call yields: no object results. *)
Raise == [err |-> TRUE]

(* ------------------------------- trees -------------------------------- *)
RECURSIVE AscendingSeq(_)
AscendingSeq(S) ==
    IF S = {} THEN <<>>
    ELSE LET m == CHOOSE x \in S : \A y \in S : x <= y
         IN  <<m>> \o AscendingSeq(S \ {m})

RECURSIVE AncestorOrSelf(_, _, _)
AncestorOrSelf(par, a, i) == a = i \/ (i > 1 /\ AncestorOrSelf(par, a, par[i]))

(* Parent vectors of the ordered trees on nodes 1..n, numbered in preorder. *)
ParentVectors(n) ==
    {par \in [2..n -> 1..(n - 1)] :
        \A i \in 2..n : par[i] < i /\ (i > 2 => AncestorOrSelf(par, par[i], i - 1))}

ChildrenOf(par, n) ==
    [p \in 1..n |-> AscendingSeq({i \in 2..n : par[i] = p})]

Nodes == DOMAIN children
IsLeaf(t) == Len(children[t]) = 0
Leaves == {t \in Nodes : IsLeaf(t)}
Internal == Nodes \ Leaves
ChildSet(t) == {children[t][j] : j \in 1..Len(children[t])}
ParentOf(t) == CHOOSE p \in Nodes : t \in ChildSet(p)

RECURSIVE SumValues(_, _)
SumValues(val, trees) ==
    IF trees = <<>> THEN 0 ELSE val[Head(trees)] + SumValues(val, Tail(trees))

(* ----------------------- compute_internal_values ---------------------- *)
RECURSIVE compute_internal_values_stale(_, _)
compute_internal_values_stale(t, val) ==
    IF Len(children[t]) = 0 THEN [value |-> val, ret |-> val[t]]
    ELSE LET RECURSIVE loop(_, _)
             loop(v, j) ==
                 IF j > Len(children[t]) THEN v
                 ELSE LET r == compute_internal_values_stale(children[t][j], v)
                      IN  loop([r.value EXCEPT ![t] = @ + r.ret], j + 1)
             out == loop(val, 1)
         IN  [value |-> out, ret |-> out[t]]

RECURSIVE compute_internal_values(_, _)
compute_internal_values(t, val) ==
    IF Len(children[t]) = 0 THEN [value |-> val, ret |-> val[t]]
    ELSE LET RECURSIVE loop(_, _)
             loop(v, j) ==
                 IF j > Len(children[t]) THEN v
                 ELSE LET r == compute_internal_values(children[t][j], v)
                      IN  loop([r.value EXCEPT ![t] = @ + r.ret], j + 1)
             out == loop([val EXCEPT ![t] = 0], 1)
         IN  [value |-> out, ret |-> out[t]]

(* ----------------------------- compute_paths -------------------------- *)
RECURSIVE compute_paths_own_key(_, _, _)
compute_paths_own_key(t, prefix, pth) ==
    LET RECURSIVE loop(_, _)
        loop(p, j) ==
            IF j > Len(children[t]) THEN p
            ELSE loop(compute_paths_own_key(children[t][j],
                                            Append(prefix, key[t]), p), j + 1)
    IN  loop([pth EXCEPT ![t] = Append(prefix, key[t])], 1)

(* Line 58 compares the method t.num_children (not its result) with 0, so  *)
(* the else branch of lines 61-63 runs for every node; on a leaf its loop   *)
(* is empty and the two branches assign the same path.                      *)
RECURSIVE compute_paths(_, _, _)
compute_paths(t, prefix, pth) ==
    LET RECURSIVE loop(_, _)
        loop(p, j) ==
            IF j > Len(children[t]) THEN p
            ELSE loop(compute_paths(children[t][j], Append(prefix, key[t]), p),
                      j + 1)
    IN  loop([pth EXCEPT ![t] = prefix], 1)

(* ------------------------------ Rectangle ----------------------------- *)
(* Lines 216-218. The isinstance checks of lines 212-214, 75-79 are not     *)
(* modelled: every origin and size here is a pair of numbers.               *)
validate_tuple_param(p) == QLe(Q(0), p[1]) /\ QLe(Q(0), p[2])

(* Lines 73-84: line 74 validates origin a second time, under the name      *)
(* "size"; size itself is never validated.                                  *)
Rectangle(origin, size, label, color_code) ==
    IF ~(validate_tuple_param(origin) /\ validate_tuple_param(origin))
    THEN Raise
    ELSE [err |-> FALSE, x |-> origin[1], y |-> origin[2],
          width |-> size[1], height |-> size[2],
          label |-> label, color_code |-> color_code]

transpose_rectangle(rec) ==
    Rectangle(<<rec.y, rec.x>>, <<rec.height, rec.width>>,
              rec.label, rec.color_code)

(* ----------------------------- sorted_trees --------------------------- *)
(* The sort key of line 288, (-t.value, t.key), compared as Python compares *)
(* tuples.                                                                  *)
sort_key_descending_key(val, t) == <<-val[t], -key[t]>>

sort_key(val, t) == <<-val[t], key[t]>>

TupleLt(a, b) == a[1] < b[1] \/ (a[1] = b[1] /\ a[2] < b[2])

(* sorted() is stable: an element goes after every element whose key is not *)
(* greater than its own.                                                    *)
RECURSIVE InsertSorted(_, _, _)
InsertSorted(val, s, t) ==
    IF s = <<>> THEN <<t>>
    ELSE IF TupleLt(sort_key(val, t), sort_key(val, Head(s)))
         THEN <<t>> \o s
         ELSE <<Head(s)>> \o InsertSorted(val, Tail(s), t)

RECURSIVE SortLoop(_, _, _)
SortLoop(val, done, todo) ==
    IF todo = <<>> THEN done
    ELSE SortLoop(val, InsertSorted(val, done, Head(todo)), Tail(todo))

(* Returns the new list and the input list as the call leaves it. *)
sorted_trees(val, tree_list) ==
    [ret |-> SortLoop(val, <<>>, tree_list), tree_list |-> tree_list]

(* --------------------------- compute_tree_list ------------------------ *)
Prefix(s, i) == SubSeq(s, 1, i)

(* list.remove: drops the first occurrence. *)
RECURSIVE Remove(_, _)
Remove(s, t) ==
    IF s = <<>> THEN <<>>
    ELSE IF Head(s) = t THEN Tail(s) ELSE <<Head(s)>> \o Remove(Tail(s), t)

remaining_kept(new_trees, t) == new_trees

remaining(new_trees, t) == Remove(new_trees, t)

(* Lines 163-171 for one i: the divisions that raise ZeroDivisionError. *)
ratios_raise(sub_trees, i, total_val, w, h) ==
    LET values == SumValues(value, Prefix(sub_trees, i))
    IN  \/ total_val = 0
        \/ values = 0
        \/ QIsZero(QMax(w, h))
        \/ QIsZero(QMin(w, h))
        \/ \E j \in 1..i : value[sub_trees[j]] = 0

(* Lines 163-171 for one i: the list ratios (defined when nothing raises). *)
ratios(sub_trees, i, total_val, w, h) ==
    With(SumValues(value, Prefix(sub_trees, i)), LAMBDA values :
    With(QMul(QDiv(Q(values), Q(total_val)), QMax(w, h)), LAMBDA width :
        [j \in 1..i |->
            With(QMul(QDiv(Q(value[sub_trees[j]]), Q(values)), QMin(w, h)),
                 LAMBDA height : QMax(QDiv(height, width), QDiv(width, height)))]))

accepts_ties(i, max_ratios, distortion) ==
    i = 1 \/ QLe(max_ratios, distortion)

(* Lines 172-177: the first tree always, a later one on a strict decrease. *)
accepts(i, max_ratios, distortion) ==
    i = 1 \/ QLt(max_ratios, distortion)

RECURSIVE tree_list_loop(_, _, _, _, _, _, _, _)
tree_list_loop(sub_trees, w, h, total_val, i, distortion, row_trees, new_trees) ==
    IF i > Len(sub_trees)
    THEN [err |-> FALSE, row_trees |-> row_trees, new_trees |-> new_trees,
          total_val |-> total_val]
    ELSE IF ratios_raise(sub_trees, i, total_val, w, h) THEN Raise
    ELSE With(QMaxSeq(ratios(sub_trees, i, total_val, w, h)), LAMBDA m :
             IF accepts(i, m, distortion)
             THEN With(Append(row_trees, sub_trees[i]), LAMBDA row :
                  With(remaining(new_trees, sub_trees[i]), LAMBDA new :
                      tree_list_loop(sub_trees, w, h, total_val, i + 1, m,
                                     row, new)))
             ELSE [err |-> FALSE, row_trees |-> row_trees,
                   new_trees |-> new_trees, total_val |-> total_val])

compute_tree_list(sub_trees, bounding_rec_width, bounding_rec_height) ==
    tree_list_loop(sub_trees, bounding_rec_width, bounding_rec_height,
                   SumValues(value, sub_trees), 1, Q(0), <<>>, sub_trees)

(* ------------------------------ compute_row --------------------------- *)
leftover_rect_at_origin(bounding_rec, row_width) ==
    Rectangle(<<bounding_rec.x, bounding_rec.y>>,
              <<QSub(bounding_rec.width, row_width), bounding_rec.height>>,
              0, <<0>>)

(* Lines 363-364. *)
leftover_rect(bounding_rec, row_width) ==
    Rectangle(<<QAdd(bounding_rec.x, row_width), bounding_rec.y>>,
              <<QSub(bounding_rec.width, row_width), bounding_rec.height>>,
              0, <<0>>)

(* Lines 356-362: the loop over row_data from position j on. *)
RECURSIVE row_loop(_, _, _, _, _, _, _)
row_loop(bounding_rec, row_data, row_sum, row_width, j, y, row_layout) ==
    IF j > Len(row_data) THEN [err |-> FALSE, row_layout |-> row_layout]
    ELSE IF row_sum = 0 THEN Raise
    ELSE With(row_data[j], LAMBDA t :
         With(QDiv(QMul(bounding_rec.height, Q(value[t])), Q(row_sum)),
              LAMBDA height :
         With(Rectangle(<<bounding_rec.x, y>>, <<row_width, height>>, 0, <<0>>),
              LAMBDA rec :
             IF rec.err THEN Raise
             ELSE With(QAdd(y, height), LAMBDA y_next :
                  With(IF QLt(Q(0), rec.width) /\ QLt(Q(0), rec.height)
                       THEN Append(row_layout, [rec |-> rec, t |-> t])
                       ELSE row_layout, LAMBDA layout_next :
                      row_loop(bounding_rec, row_data, row_sum, row_width,
                               j + 1, y_next, layout_next))))))

compute_row_wide(bounding_rec, row_data, total_sum) ==
    IF ~QLe(bounding_rec.height, bounding_rec.width) THEN Raise
    ELSE IF total_sum = 0 THEN Raise
    ELSE With(SumValues(value, row_data), LAMBDA row_sum :
         With(QDiv(QMul(bounding_rec.width, Q(row_sum)), Q(total_sum)),
              LAMBDA row_width :
         With(row_loop(bounding_rec, row_data, row_sum, row_width, 1,
                       bounding_rec.y, <<>>), LAMBDA lay :
         With(leftover_rect(bounding_rec, row_width), LAMBDA leftover :
             IF lay.err \/ leftover.err THEN Raise
             ELSE [err |-> FALSE, row_layout |-> lay.row_layout,
                   leftover |-> leftover]))))

compute_row(bounding_rec, row_data, total_sum) ==
    IF QLe(bounding_rec.height, bounding_rec.width)
    THEN compute_row_wide(bounding_rec, row_data, total_sum)
    ELSE With(transpose_rectangle(bounding_rec), LAMBDA bt :
         With(IF bt.err THEN Raise
              ELSE compute_row_wide(bt, row_data, total_sum), LAMBDA r :
             IF r.err THEN Raise
             ELSE With([j \in 1..Len(r.row_layout) |->
                           [rec |-> transpose_rectangle(r.row_layout[j].rec),
                            t |-> r.row_layout[j].t]], LAMBDA row_layout :
                  With(transpose_rectangle(r.leftover), LAMBDA leftover :
                      IF leftover.err
                           \/ \E j \in 1..Len(row_layout) : row_layout[j].rec.err
                      THEN Raise
                      ELSE [err |-> FALSE, row_layout |-> row_layout,
                            leftover |-> leftover]))))

(* ------------------------ compute_rectangles_r ------------------------ *)
(* One activation of compute_rectangles_r(t, bounding_rec, recs): first the *)
(* chain of helper_rect calls (phase "helper": sub_trees, cur_rec and       *)
(* total_val are the arguments of the innermost call, depth the number of   *)
(* helper_rect activations), then the loop of lines 131-135 (phase "loop",  *)
(* idx the next position in rec_pairs).                                     *)
NewFrame(t, bounding_rec, sub_trees) ==
    [t |-> t, bounding_rec |-> bounding_rec, phase |-> "helper",
     sub_trees |-> sub_trees, cur_rec |-> bounding_rec,
     total_val |-> value[t], rec_pairs |-> <<>>, depth |-> 1, idx |-> 1]

Top == stack[Len(stack)]
SetTop(f) == [stack EXCEPT ![Len(stack)] = f]

(* Python's recursion is finite; the guard only keeps a diverging chain of *)
(* helper_rect calls from unfolding without end.                            *)
CallCap == MaxNodes + 2

row_total_stale(total_val, new_total) == total_val

(* Line 200: compute_row is given the total compute_tree_list returned. *)
row_total(total_val, new_total) == new_total

stamp_nothing(pair) == pair

(* Lines 128-129. *)
stamp(pair) ==
    [pair EXCEPT !.rec = [@ EXCEPT !.label = key[pair.t],
                                   !.color_code = path[pair.t]]]

(* ------------------------------- actions ------------------------------ *)
CallComputeInternalValues ==
    /\ pc = "start"
    /\ LET r == compute_internal_values(1, value)
       IN  /\ value' = r.value
           /\ ret' = r.ret
    /\ pc' = "valued"
    /\ UNCHANGED <<children, key, path, bw, bh, stack, recs, args>>

CallComputePaths ==
    /\ pc = "valued"
    /\ path' = compute_paths(1, <<>>, path)
    /\ pc' = "pathed"
    /\ UNCHANGED <<children, key, value, bw, bh, stack, recs, args, ret>>

(* Lines 108-110 and 124: the bounding rectangle and the first activation. *)
EnterRectanglesR ==
    /\ pc = "pathed"
    /\ LET bounding_rec == Rectangle(<<Q(0), Q(0)>>, <<Q(bw), Q(bh)>>, 0, <<0>>)
           s == sorted_trees(value, children[1])
       IN  IF bounding_rec.err
           THEN /\ pc' = "error"
                /\ UNCHANGED <<children, stack>>
           ELSE /\ pc' = "run"
                /\ children' = [children EXCEPT ![1] = s.tree_list]
                /\ stack' = <<NewFrame(1, bounding_rec, s.ret)>>
    /\ UNCHANGED <<key, value, path, bw, bh, recs, args, ret>>

(* Lines 198-204: one activation of helper_rect; when the last one returns, *)
(* lines 127-129 stamp the pairs.                                           *)
HelperRect ==
    /\ pc = "run"
    /\ Top.phase = "helper"
    /\ Top.depth <= CallCap
    /\ \E f \in {Top} :
       \E tl \in {compute_tree_list(f.sub_trees, f.cur_rec.width,
                                     f.cur_rec.height)} :
       \E row \in {IF tl.err THEN Raise
                    ELSE compute_row(f.cur_rec, tl.row_trees,
                                     row_total(f.total_val, tl.total_val))} :
         IF row.err
         THEN /\ pc' = "error"
              /\ UNCHANGED stack
         ELSE \E pairs \in {f.rec_pairs \o row.row_layout} :
                /\ pc' = pc
                /\ stack' = SetTop(
                     IF Len(tl.new_trees) = 0
                     THEN [f EXCEPT !.phase = "loop",
                                    !.rec_pairs = [j \in 1..Len(pairs) |->
                                                      stamp(pairs[j])]]
                     ELSE [f EXCEPT !.sub_trees = tl.new_trees,
                                    !.cur_rec = row.leftover,
                                    !.total_val = tl.total_val,
                                    !.rec_pairs = pairs,
                                    !.depth = @ + 1])
    /\ UNCHANGED <<children, key, value, path, bw, bh, recs, args, ret>>

(* Lines 132-133. *)
AppendLeaf ==
    /\ pc = "run"
    /\ Top.phase = "loop"
    /\ Top.idx <= Len(Top.rec_pairs)
    /\ Len(children[Top.rec_pairs[Top.idx].t]) = 0
    /\ recs' = Append(recs, Top.rec_pairs[Top.idx].rec)
    /\ stack' = SetTop([Top EXCEPT !.idx = @ + 1])
    /\ UNCHANGED <<children, key, value, path, bw, bh, pc, args, ret>>

(* Lines 134-135 and 124. *)
Recurse ==
    /\ pc = "run"
    /\ Top.phase = "loop"
    /\ Top.idx <= Len(Top.rec_pairs)
    /\ Len(children[Top.rec_pairs[Top.idx].t]) > 0
    /\ LET pair == Top.rec_pairs[Top.idx]
           s == sorted_trees(value, children[pair.t])
       IN  /\ children' = [children EXCEPT ![pair.t] = s.tree_list]
           /\ stack' = Append(SetTop([Top EXCEPT !.idx = @ + 1]),
                              NewFrame(pair.t, pair.rec, s.ret))
    /\ UNCHANGED <<key, value, path, bw, bh, pc, recs, args, ret>>

(* Line 136. *)
Return ==
    /\ pc = "run"
    /\ Top.phase = "loop"
    /\ Top.idx > Len(Top.rec_pairs)
    /\ stack' = SubSeq(stack, 1, Len(stack) - 1)
    /\ pc' = IF Len(stack) = 1 THEN "done" ELSE "run"
    /\ ret' = IF Len(stack) = 1 THEN recs ELSE ret
    /\ UNCHANGED <<children, key, value, path, bw, bh, recs, args>>

(* A caller constructs a Rectangle from four numbers. *)
NewRectangle ==
    /\ pc = "new_rect"
    /\ ret' = Rectangle(<<Q(args[1]), Q(args[2])>>, <<Q(args[3]), Q(args[4])>>,
                        0, <<0>>)
    /\ pc' = "returned"
    /\ UNCHANGED <<children, key, value, path, bw, bh, stack, recs, args>>

(* A caller sorts the children of the root. *)
CallSortedTrees ==
    /\ pc = "call_sorted"
    /\ LET s == sorted_trees(value, children[1])
       IN  /\ ret' = s.ret
           /\ children' = [children EXCEPT ![1] = s.tree_list]
    /\ pc' = "returned"
    /\ UNCHANGED <<key, value, path, bw, bh, stack, recs, args>>

(* --------------------------- specifications --------------------------- *)
LeavesOf(par, n) == {t \in 1..n : \A i \in 2..n : par[i] # t}

(* The bounding rectangles tried: the square, and every wide and every tall *)
(* rectangle with an integer side ratio up to MaxDim.                       *)
BoundingSizes ==
    {<<1, 1>>} \cup {<<d, 1>> : d \in 2..MaxDim} \cup {<<1, d>> : d \in 2..MaxDim}

(* compute_rectangles(t, w, h) on a tree whose root has a child. *)
Init ==
    /\ \E n \in 2..MaxNodes : \E par \in ParentVectors(n) :
         /\ children = ChildrenOf(par, n)
         /\ \E lv \in [LeavesOf(par, n) -> 0..MaxVal], stale \in {0, MaxVal} :
              value = [t \in 1..n |-> IF t \in DOMAIN lv THEN lv[t] ELSE stale]
         /\ \E rev \in BOOLEAN : key = [t \in 1..n |-> IF rev THEN n + 1 - t ELSE t]
         /\ path = [t \in 1..n |-> <<0>>]
    /\ \E size \in BoundingSizes : bw = size[1] /\ bh = size[2]
    /\ pc = "start"
    /\ stack = <<>>
    /\ recs = <<>>
    /\ args = <<>>
    /\ ret = 0

Next ==
    \/ CallComputeInternalValues
    \/ CallComputePaths
    \/ EnterRectanglesR
    \/ HelperRect
    \/ AppendLeaf
    \/ Recurse
    \/ Return

Spec == Init /\ [][Next]_vars

Coords == (0 - MaxCoord)..MaxCoord

RectInit ==
    /\ children = [t \in {1} |-> <<>>]
    /\ key = [t \in {1} |-> 1]
    /\ value = [t \in {1} |-> 1]
    /\ path = [t \in {1} |-> <<0>>]
    /\ bw = 1
    /\ bh = 1
    /\ pc = "new_rect"
    /\ stack = <<>>
    /\ recs = <<>>
    /\ args \in Coords \X Coords \X Coords \X Coords
    /\ ret = 0

RectNext == NewRectangle

RectSpec == RectInit /\ [][RectNext]_vars

(* sorted_trees on the children of a root: any keys, any values. *)
SortInit ==
    /\ \E n \in 2..MaxNodes :
         /\ children = [t \in 1..n |-> IF t = 1 THEN [j \in 1..(n - 1) |-> j + 1]
                                       ELSE <<>>]
         /\ key \in [1..n -> 1..MaxKey]
         /\ value \in [1..n -> 0..MaxVal]
         /\ key[1] = 1
         /\ value[1] = 0
         /\ path = [t \in 1..n |-> <<0>>]
    /\ bw = 1
    /\ bh = 1
    /\ pc = "call_sorted"
    /\ stack = <<>>
    /\ recs = <<>>
    /\ args = <<>>
    /\ ret = 0

SortNext == CallSortedTrees

SortSpec == SortInit /\ [][SortNext]_vars

(* ------------------------------- claims ------------------------------- *)
AllLeavesPositive == \A t \in Leaves : value[t] > 0

RECURSIVE SumOver(_, _)
SumOver(val, S) ==
    IF S = {} THEN 0
    ELSE LET t == CHOOSE x \in S : TRUE IN val[t] + SumOver(val, S \ {t})

Area(rec) == QMul(rec.width, rec.height)

RECURSIVE TotalArea(_)
TotalArea(rs) == IF rs = <<>> THEN Q(0) ELSE QAdd(Area(Head(rs)), TotalArea(Tail(rs)))

(* The rectangles of recs stamped with the key and path of node t. *)
RecsOf(t) == {i \in 1..Len(recs) : recs[i].label = key[t] /\ recs[i].color_code = path[t]}

(* C1: when compute_rectangles is done on a tree with positive leaves, every *)
(* returned rectangle belongs to a leaf and has area W*H*value/root value,   *)
(* every leaf has such a rectangle, and the areas sum to W*H.                *)
C1_AreaProportional ==
    (pc = "done" /\ AllLeavesPositive) =>
        /\ \A i \in 1..Len(recs) : \E t \in Leaves :
              /\ i \in RecsOf(t)
              /\ Area(recs[i]) = QDiv(Q(bw * bh * value[t]), Q(value[1]))
        /\ \A t \in Leaves : RecsOf(t) # {}
        /\ TotalArea(recs) = Q(bw * bh)

C1_Witness ==
    /\ pc = "done"
    /\ AllLeavesPositive
    /\ Len(recs) >= 3
    /\ bw # bh
    /\ \E i, j \in 1..Len(recs) : Area(recs[i]) # Area(recs[j])

Inside(r, b) ==
    /\ QLe(b.x, r.x)
    /\ QLe(b.y, r.y)
    /\ QLe(QAdd(r.x, r.width), QAdd(b.x, b.width))
    /\ QLe(QAdd(r.y, r.height), QAdd(b.y, b.height))

Overlap(r, q) ==
    /\ QLt(r.x, QAdd(q.x, q.width))
    /\ QLt(q.x, QAdd(r.x, r.width))
    /\ QLt(r.y, QAdd(q.y, q.height))
    /\ QLt(q.y, QAdd(r.y, r.height))

Tiles(f) ==
    \A rs \in {[j \in 1..Len(f.rec_pairs) |-> f.rec_pairs[j].rec]} :
        /\ {f.rec_pairs[j].t : j \in 1..Len(f.rec_pairs)} = ChildSet(f.t)
        /\ Len(rs) = Len(children[f.t])
        /\ \A j \in 1..Len(rs) :
              /\ Inside(rs[j], f.bounding_rec)
              /\ QLt(Q(0), rs[j].width) /\ QLt(Q(0), rs[j].height)
        /\ \A j, k \in 1..Len(rs) : j < k => ~Overlap(rs[j], rs[k])
        /\ TotalArea(rs) = Area(f.bounding_rec)

(* C2: in every activation whose helper_rect chain has returned, the child   *)
(* rectangles tile the activation's bounding rectangle: there is one per     *)
(* child, each lies inside the bounding rectangle, no two overlap in a       *)
(* region of positive area, and their areas add up to the bounding           *)
(* rectangle's area (so, lying inside it without overlap, they leave no gap).*)
C2_ChildrenTile ==
    \A d \in 1..Len(stack) :
        (stack[d].phase = "loop"
           /\ \A c \in ChildSet(stack[d].t) : value[c] > 0)
        => Tiles(stack[d])

C2_Witness ==
    \E d \in 1..Len(stack) :
        /\ stack[d].phase = "loop"
        /\ QLt(stack[d].bounding_rec.width, stack[d].bounding_rec.height)
        /\ Len(stack[d].rec_pairs) >= 3
        /\ \E j, k \in 1..Len(stack[d].rec_pairs) :
              stack[d].rec_pairs[j].rec.x # stack[d].rec_pairs[k].rec.x
        /\ \E j, k \in 1..Len(stack[d].rec_pairs) :
              stack[d].rec_pairs[j].rec.y # stack[d].rec_pairs[k].rec.y

ZeroChildInPositiveGroup ==
    \E p \in Internal : value[p] > 0 /\ \E c \in ChildSet(p) : value[c] = 0

(* C3: when a sibling group of positive total value holds a child of value   *)
(* 0, compute_rectangles does not raise, and once done the zero-value leaves *)
(* have no rectangle while the positive leaves have one.                     *)
C3_ZeroChildDropped ==
    (pc \in {"run", "done", "error"} /\ ZeroChildInPositiveGroup) =>
        /\ pc # "error"
        /\ pc = "done" =>
              \A t \in Leaves : (value[t] = 0) <=> (RecsOf(t) = {})

(* C4: constructing a Rectangle with a negative x, y, width or height raises *)
(* and yields no object.                                                     *)
C4_NegativeRejected ==
    (pc = "returned" /\ \E i \in 1..4 : args[i] < 0) => ret.err

(* C5: compute_internal_values leaves every leaf's value as it was, makes    *)
(* every internal node's value the sum of its children's values, and returns *)
(* the root's value, the sum of all leaf values.                             *)
C5_ValuesAggregated ==
    [][(pc = "start" /\ pc' = "valued") =>
          /\ \A t \in Leaves : value'[t] = value[t]
          /\ \A t \in Internal : value'[t] = SumValues(value', children[t])
          /\ ret' = value'[1]
          /\ ret' = SumOver(value, Leaves)]_vars

C5_Witness ==
    /\ pc = "valued"
    /\ \E t \in Internal \ {1} :
          /\ value[t] > 0
          /\ value[1] > value[t]
          /\ ret = value[1]

RECURSIVE DepthOf(_)
DepthOf(t) == IF t = 1 THEN 0 ELSE 1 + DepthOf(ParentOf(t))

(* C6: once compute_paths has run, the root's path is empty and every other  *)
(* node's path is its parent's path followed by the parent's key, so as long *)
(* as the node's depth and without the node's own key at its end.            *)
C6_PathsFromRoot ==
    (pc \in {"pathed", "run", "done", "error"}) =>
        /\ path[1] = <<>>
        /\ \A t \in Nodes \ {1} :
              /\ path[t] = Append(path[ParentOf(t)], key[ParentOf(t)])
              /\ Len(path[t]) = DepthOf(t)

C6_Witness ==
    /\ pc = "pathed"
    /\ \E t \in Leaves, u \in Internal : Len(path[t]) = 2 /\ Len(path[u]) = 1

IsPermutation(a, b) ==
    /\ Len(a) = Len(b)
    /\ \A t \in Nodes :
          Cardinality({i \in 1..Len(a) : a[i] = t})
            = Cardinality({i \in 1..Len(b) : b[i] = t})

(* C7: sorted_trees returns a permutation of its input in descending order  *)
(* of value, ties in ascending order of key, and leaves the input list as it *)
(* was.                                                                      *)
C7_SortedPermutation ==
    [][(pc = "call_sorted") =>
          /\ children' = children
          /\ IsPermutation(ret', children[1])
          /\ \A i, j \in 1..Len(ret') : i < j =>
                \/ value[ret'[i]] > value[ret'[j]]
                \/ (value[ret'[i]] = value[ret'[j]] /\ key[ret'[i]] <= key[ret'[j]])]_vars

(* The example b:5, a:5, c:10 with the values scaled to 1, 1, 2 (nodes 2, 3, *)
(* 4 carry the keys b, a, c): the result is c, a, b.                         *)
C7_Witness ==
    /\ pc = "returned"
    /\ children[1] = <<2, 3, 4>>
    /\ key[2] = 2 /\ key[3] = 1 /\ key[4] = 3
    /\ value[2] = 1 /\ value[3] = 1 /\ value[4] = 2
    /\ ret = <<4, 3, 2>>

(* The worst aspect ratio max(h/w, w/h) over the first j of the siblings s   *)
(* laid out as one row of a W x H rectangle: with S the sum of the first j   *)
(* values and T the sum of all, item i has h/w = v_i*T*short / (S*S*long).   *)
WorstRatio(s, j, W, H) ==
    LET S == SumValues(value, Prefix(s, j))
        T == SumValues(value, s)
        hw(i) == QDiv(QMul(Q(value[s[i]] * T), QMin(W, H)), QMul(Q(S * S), QMax(W, H)))
        worst(i) == QMax(hw(i), QDiv(Q(1), hw(i)))
    IN  CHOOSE r \in {worst(i) : i \in 1..j} : \A i \in 1..j : QLe(worst(i), r)

RowCall(P(_, _, _, _)) ==
    (pc = "run" /\ Top.phase = "helper") =>
        \A s \in {Top.sub_trees} : \A W \in {Top.cur_rec.width} :
        \A H \in {Top.cur_rec.height} :
        \A r \in {compute_tree_list(s, W, H)} :
            (\A i \in 1..Len(s) : value[s[i]] > 0) => P(s, W, H, r)

IsSplit(s, r) ==
    /\ ~r.err
    /\ Len(r.row_trees) >= 1
    /\ r.row_trees = Prefix(s, Len(r.row_trees))
    /\ r.new_trees = SubSeq(s, Len(r.row_trees) + 1, Len(s))

GreedyNotIncreasing(s, W, H, r) ==
    /\ IsSplit(s, r)
    /\ \A j \in 2..Len(r.row_trees) :
          QLe(WorstRatio(s, j, W, H), WorstRatio(s, j - 1, W, H))
    /\ Len(r.row_trees) < Len(s) =>
          QLt(WorstRatio(s, Len(r.row_trees), W, H),
              WorstRatio(s, Len(r.row_trees) + 1, W, H))

GreedyDecreasing(s, W, H, r) ==
    /\ IsSplit(s, r)
    /\ \A j \in 2..Len(r.row_trees) :
          QLt(WorstRatio(s, j, W, H), WorstRatio(s, j - 1, W, H))
    /\ Len(r.row_trees) < Len(s) =>
          QLe(WorstRatio(s, Len(r.row_trees), W, H),
              WorstRatio(s, Len(r.row_trees) + 1, W, H))

TreeDepth == CHOOSE d \in 0..Cardinality(Nodes) :
                 /\ \E t \in Nodes : DepthOf(t) = d
                 /\ \A t \in Nodes : DepthOf(t) <= d

BoundedRecursion ==
    /\ Len(stack) <= TreeDepth
    /\ \A d \in 1..Len(stack) : stack[d].depth <= Len(children[stack[d].t])
    /\ (pc = "run" /\ Top.phase = "helper") =>
          /\ Top.sub_trees # <<>>
          /\ \A r \in {compute_tree_list(Top.sub_trees, Top.cur_rec.width,
                                         Top.cur_rec.height)} :
                ~r.err => Len(r.row_trees) >= 1 /\ Len(r.new_trees) < Len(Top.sub_trees)

OnStack(t) == \E d \in 1..Len(stack) : stack[d].t = t
FrameOf(t) == stack[CHOOSE d \in 1..Len(stack) : stack[d].t = t]

(* compute_rectangles_r has been called on internal node t. *)
RECURSIVE Entered(_)
Entered(t) ==
    \/ t = 1
    \/ \A p \in {ParentOf(t)} :
          /\ Entered(p)
          /\ OnStack(p) =>
                /\ FrameOf(p).phase = "loop"
                /\ \E j \in 1..(FrameOf(p).idx - 1) : FrameOf(p).rec_pairs[j].t = t

(* Steps an activation on t takes at most: a helper_rect step and a loop    *)
(* step per child, and the return.                                           *)
NodeWork(t) == 2 * Len(children[t]) + 1

FrameWork(f) ==
    IF f.phase = "helper"
    THEN Len(f.sub_trees) + Len(children[f.t]) + 1
    ELSE Len(f.rec_pairs) - f.idx + 2

RECURSIVE SumFrames(_)
SumFrames(d) == IF d = 0 THEN 0 ELSE FrameWork(stack[d]) + SumFrames(d - 1)

RECURSIVE SumWork(_)
SumWork(S) ==
    IF S = {} THEN 0
    ELSE LET t == CHOOSE x \in S : TRUE IN NodeWork(t) + SumWork(S \ {t})

Measure ==
    CASE pc = "start" -> 3 + SumWork(Internal)
      [] pc = "valued" -> 2 + SumWork(Internal)
      [] pc = "pathed" -> 1 + SumWork(Internal)
      [] pc = "run" -> SumFrames(Len(stack))
                         + SumWork({t \in Internal : ~Entered(t)})
      [] OTHER -> 0

(* C9: on a tree with positive leaves compute_rectangles terminates: every  *)
(* compute_tree_list call on a non-empty list puts a sibling in the row, no  *)
(* activation of compute_rectangles_r has more helper_rect activations than  *)
(* its node has children, there are never more nested activations of         *)
(* compute_rectangles_r than the tree is deep, nothing raises, a step is      *)
(* possible until the result is returned, and every step lowers Measure, a    *)
(* natural number: the run is at most Measure steps long.                     *)
C9_Terminates ==
    /\ [](AllLeavesPositive =>
            /\ BoundedRecursion
            /\ Measure >= 0
            /\ pc # "error"
            /\ pc # "done" => ENABLED Next)
    /\ [][AllLeavesPositive => Measure' < Measure]_vars

C9_Witness ==
    /\ pc = "run"
    /\ AllLeavesPositive
    /\ Len(stack) >= 2
    /\ stack[1].depth >= 2

(* C10: when compute_rectangles is done on a tree with positive leaves, the  *)
(* result holds one rectangle per leaf, stamped with the leaf's key as label *)
(* and the leaf's path as color_code, and no rectangle of an internal node.  *)
C10_OneRectanglePerLeaf ==
    (pc = "done" /\ AllLeavesPositive) =>
        /\ ret = recs
        /\ Len(recs) = Cardinality(Leaves)
        /\ \A t \in Leaves : Cardinality(RecsOf(t)) = 1
        /\ \A t \in Internal : RecsOf(t) = {}

C10_Witness ==
    /\ pc = "done"
    /\ AllLeavesPositive
    /\ Internal # {1}
    /\ Len(recs) >= 2
    /\ \E i, j \in 1..Len(recs) : Len(recs[i].color_code) # Len(recs[j].color_code)

====
